---- MODULE Spec2Model ----
(***************************************************************************)
(* Reservation admission, edit and cancel handlers of the car rental       *)
(* platform (src/app/api/reservations/[id]/route.ts), the billing engine   *)
(* (src/lib/prisma.ts) and the Reservation/Payment tables                  *)
(* (src/prisma/schema.prisma) as a state machine.                          *)
(*                                                                         *)
(* Instants are whole hours; calendar day d starts at instant 24 * d.      *)
(* Money is in cents, so the 15% / 25% tariff rates stay integral.         *)
(***************************************************************************)
EXTENDS Integers, Sequences, FiniteSets, TLC

VARIABLES
  reservations,  \* the Reservation table: a sequence of rows, row i has id i
  payments,      \* the Payment table: a set of rows keyed by reservationId
  inflight,      \* POST requests that ran findMany and await their transaction
  quote          \* the reservation form's price calculation: inputs and result

vars == <<reservations, payments, inflight, quote>>

---------------------------------------------------------------------------
\* Bounds of the model.
MaxRes == 2        \* rows the Reservation table may hold
MaxResFields == 1  \* the same, under the requests of SpecFields
MaxDay == 3        \* request dates are the midnights of days 0 .. MaxDay
MaxInflight == 2   \* POST requests between their read and their write
MaxHour == 58      \* the form's return instants are the hours 0 .. MaxHour

---------------------------------------------------------------------------
\* Program constants.
HoursPerDay == 24          \* 1000 * 60 * 60 * 24 ms, in hours
DiscountedRate == 15       \* discount: 0.15, in percent
ExclusiveRate == -25       \* discount: -0.25, in percent
Now == 24                  \* new Date() at admission time: midnight of day 1

NoSession == "anonymous"   \* getServerSession returned null
NoDate == -1               \* a date field absent from the request body
InvalidDate == -2          \* a Date whose getTime() is NaN
NoValue == ""              \* a string field absent from the request body
NoPrice == -1              \* totalPrice absent from the request body

\* The User table (setup.sql plus one more member and a GUEST account).
UserRole ==
  [u1 |-> "ADMIN", u2 |-> "MEMBER", u3 |-> "EMPLOYEE", u4 |-> "MEMBER", u5 |-> "GUEST"]
UserIds == DOMAIN UserRole

\* Who may call: nobody logged in, or a session of one of the users.
Sessions == {NoSession} \cup UserIds

\* The Vehicle table: pricePerDay in cents and the administrative flag; v3 is
\* taken out of service and v4 is lent for nothing.
Vehicle ==
  [v1 |-> [pricePerDay |-> 3500, available |-> TRUE],
   v2 |-> [pricePerDay |-> 7500, available |-> TRUE],
   v3 |-> [pricePerDay |-> 9500, available |-> FALSE],
   v4 |-> [pricePerDay |-> 0, available |-> TRUE]]
VehicleIds == DOMAIN Vehicle
AvailableVehicles == {v \in VehicleIds : Vehicle[v].available}

ReservationStatus == {"PENDING", "CONFIRMED", "CANCELLED", "COMPLETED"}
TariffType == {"BASIC", "DISCOUNTED", "EXCLUSIVE"}
PaymentStatus == {"PENDING", "COMPLETED", "FAILED", "REFUNDED"}

---------------------------------------------------------------------------
\* src/lib/auth.ts: hasRequiredRole
hasRequiredRole(session, allowedRoles) ==
  /\ session # NoSession
  /\ UserRole[session] \in allowedRoles

---------------------------------------------------------------------------
\* src/lib/prisma.ts: BillingEngine

\* A lookup without the fallback to the first entry: an id that is not in the
\* table gets the rate of the entry the search stopped at, the last one.
TariffDiscountNoFallback(tariffId) ==
  CASE tariffId = "BASIC" -> 0
    [] tariffId = "DISCOUNTED" -> DiscountedRate
    [] OTHER -> ExclusiveRate

\* this.tariffs.find(t => t.id === tariffId) || this.tariffs[0], as its rate
TariffDiscount(tariffId) ==
  CASE tariffId = "DISCOUNTED" -> DiscountedRate
    [] tariffId = "EXCLUSIVE" -> ExclusiveRate
    [] OTHER -> 0

\* isNaN(date.getTime()) of every date is taken to be false.
ValidDateAlways(date) == TRUE

\* !date || isNaN(date.getTime()), negated
ValidDate(date) == date \notin {NoDate, InvalidDate}

\* Math.ceil(a / b) for b > 0
Ceil(a, b) == -((-a) \div b)

Max(a, b) == IF a >= b THEN a ELSE b
Abs(a) == IF a < 0 THEN -a ELSE a

\* Whole days only: Math.floor in place of Math.ceil.
BillingDaysWholeDays(startDate, endDate) ==
  Max(1, (endDate - startDate) \div HoursPerDay)

\* The calendar days the rental touches, in place of the elapsed time.
BillingDaysCalendar(startDate, endDate) ==
  Max(1, (endDate \div HoursPerDay) - (startDate \div HoursPerDay) + 1)

\* Math.max(1, Math.ceil(timeDiff / day))
BillingDays(startDate, endDate) ==
  Max(1, Ceil(endDate - startDate, HoursPerDay))

\* The adjustment reported as an amount without its sign.
calculatePriceUnsigned(pricePerDay, startDate, endDate, tariffId) ==
  IF ~ValidDate(startDate) \/ ~ValidDate(endDate)
  THEN [basePrice |-> 0, tariffAdjustment |-> 0, totalPrice |-> 0, breakdown |-> <<>>]
  ELSE
    LET days == BillingDays(startDate, endDate)
        discount == TariffDiscount(tariffId)
        basePrice == pricePerDay * days
        tariffAdjustment == IF discount # 0 THEN Abs((basePrice * discount) \div 100) ELSE 0
        breakdown ==
          <<basePrice>> \o
          (IF discount = 0 THEN <<>>
           ELSE IF discount > 0 THEN <<-tariffAdjustment>>
           ELSE <<tariffAdjustment>>)
        totalPrice ==
          basePrice + (IF discount < 0 THEN tariffAdjustment ELSE -tariffAdjustment)
    IN [basePrice |-> basePrice, tariffAdjustment |-> tariffAdjustment,
        totalPrice |-> totalPrice, breakdown |-> breakdown]

calculatePrice(pricePerDay, startDate, endDate, tariffId) ==
  IF ~ValidDate(startDate) \/ ~ValidDate(endDate)
  THEN [basePrice |-> 0, tariffAdjustment |-> 0, totalPrice |-> 0, breakdown |-> <<>>]
  ELSE
    LET days == BillingDays(startDate, endDate)
        discount == TariffDiscount(tariffId)
        basePrice == pricePerDay * days
        tariffAdjustment == IF discount # 0 THEN (basePrice * discount) \div 100 ELSE 0
        breakdown ==
          <<basePrice>> \o
          (IF discount = 0 THEN <<>>
           ELSE IF discount > 0 THEN <<-tariffAdjustment>>
           ELSE <<Abs(tariffAdjustment)>>)
        totalPrice ==
          basePrice + (IF discount < 0 THEN Abs(tariffAdjustment) ELSE -tariffAdjustment)
    IN [basePrice |-> basePrice, tariffAdjustment |-> tariffAdjustment,
        totalPrice |-> totalPrice, breakdown |-> breakdown]

---------------------------------------------------------------------------
\* src/app/api/reservations/[id]/route.ts: shared pieces

ActiveStatuses == {"PENDING", "CONFIRMED"}
Staff == {"ADMIN", "EMPLOYEE"}

Response(code, error) == [code |-> code, error |-> error]

\* A range filter that lets a booking start on the day another one ends.
RangeClausesHalfOpen(r, start, end) ==
  r.startDate < end /\ r.endDate > start

\* The OR of the three range clauses of the findMany filter.
RangeClauses(r, start, end) ==
  \/ (r.startDate <= start /\ r.endDate >= start)
  \/ (r.startDate <= end /\ r.endDate >= end)
  \/ (r.startDate >= start /\ r.endDate <= end)

\* prisma.reservation.findMany({ where: { vehicleId, status: { in: [...] }, OR: [...] } })
\* on the table rs: the ids of the rows it returns.
overlappingReservations(rs, vehicleId, start, end) ==
  {i \in DOMAIN rs :
     /\ rs[i].vehicleId = vehicleId
     /\ rs[i].status \in ActiveStatuses
     /\ RangeClauses(rs[i], start, end)}

validTariffs == {"BASIC", "DISCOUNTED", "EXCLUSIVE"}
validPaymentMethods == {"CREDIT_CARD", "PAYPAL", "BANK_TRANSFER"}

---------------------------------------------------------------------------
\* POST /api/reservations

\* POST with the tariff and payment-method lists consulted before the overlap
\* query.
PostGateListsFirst(session, body, rs) ==
  IF ~hasRequiredRole(session, {"MEMBER", "EMPLOYEE", "ADMIN"})
    THEN Response(401, "Unauthorized")
  ELSE IF \/ body.vehicleId = NoValue \/ body.startDate = NoDate \/ body.endDate = NoDate
          \/ body.startTime = NoValue \/ body.endTime = NoValue
          \/ body.pickupLocation = NoValue \/ body.returnLocation = NoValue
          \/ body.tariff = NoValue \/ body.totalPrice \in {NoPrice, 0} \/ body.paymentMethod = NoValue
    THEN Response(400, "Missing required fields")
  ELSE IF body.startDate < Now
    THEN Response(400, "Start date cannot be in the past")
  ELSE IF body.endDate <= body.startDate
    THEN Response(400, "End date must be after start date")
  ELSE IF session \notin UserIds
    THEN Response(400, "User not found")
  ELSE IF body.vehicleId \notin VehicleIds
    THEN Response(400, "Vehicle not found")
  ELSE IF ~Vehicle[body.vehicleId].available
    THEN Response(400, "Vehicle not available")
  ELSE IF body.tariff \notin validTariffs
    THEN Response(400, "Invalid tariff")
  ELSE IF body.paymentMethod \notin validPaymentMethods
    THEN Response(400, "Invalid payment method")
  ELSE IF overlappingReservations(rs, body.vehicleId, body.startDate, body.endDate) # {}
    THEN Response(400, "Vehicle already reserved for this time period")
  ELSE Response(201, "")

\* The gates of POST in the order the handler applies them, on the table rs
\* its findMany read: the response of the first gate that fails, or 201.
PostGate(session, body, rs) ==
  IF ~hasRequiredRole(session, {"MEMBER", "EMPLOYEE", "ADMIN"})
    THEN Response(401, "Unauthorized")
  ELSE IF \/ body.vehicleId = NoValue \/ body.startDate = NoDate \/ body.endDate = NoDate
          \/ body.startTime = NoValue \/ body.endTime = NoValue
          \/ body.pickupLocation = NoValue \/ body.returnLocation = NoValue
          \/ body.tariff = NoValue \/ body.totalPrice \in {NoPrice, 0} \/ body.paymentMethod = NoValue
    THEN Response(400, "Missing required fields")
  ELSE IF body.startDate < Now
    THEN Response(400, "Start date cannot be in the past")
  ELSE IF body.endDate <= body.startDate
    THEN Response(400, "End date must be after start date")
  ELSE IF session \notin UserIds
    THEN Response(400, "User not found")
  ELSE IF body.vehicleId \notin VehicleIds
    THEN Response(400, "Vehicle not found")
  ELSE IF ~Vehicle[body.vehicleId].available
    THEN Response(400, "Vehicle not available")
  ELSE IF overlappingReservations(rs, body.vehicleId, body.startDate, body.endDate) # {}
    THEN Response(400, "Vehicle already reserved for this time period")
  ELSE IF body.tariff \notin validTariffs
    THEN Response(400, "Invalid tariff")
  ELSE IF body.paymentMethod \notin validPaymentMethods
    THEN Response(400, "Invalid payment method")
  ELSE Response(201, "")

\* tx.reservation.create({ data: { ... } })
NewReservation(session, body) ==
  [startDate |-> body.startDate, endDate |-> body.endDate,
   startTime |-> body.startTime, endTime |-> body.endTime,
   pickupLocation |-> body.pickupLocation, returnLocation |-> body.returnLocation,
   status |-> "PENDING", tariff |-> body.tariff, totalPrice |-> body.totalPrice,
   userId |-> session, vehicleId |-> body.vehicleId]

\* A payment row that breaks the create contract: settled, and of amount 0.
NewPaymentSettled(session, body, reservationId) ==
  [amount |-> 0, paymentMethod |-> body.paymentMethod,
   paymentStatus |-> "COMPLETED", userId |-> session, reservationId |-> reservationId]

\* tx.payment.create({ data: { ... } })
NewPayment(session, body, reservationId) ==
  [amount |-> body.totalPrice, paymentMethod |-> body.paymentMethod,
   paymentStatus |-> "PENDING", userId |-> session, reservationId |-> reservationId]

Faults == {"none", "reservation", "payment"}

\* The two creates run without a transaction: a payment write that throws
\* leaves the reservation row behind.
TransactionNoRollback(rs, ps, session, body, fault) ==
  IF fault = "reservation"
  THEN [reservations |-> rs, payments |-> ps]
  ELSE [reservations |-> Append(rs, NewReservation(session, body)),
        payments |-> IF fault = "none"
                     THEN ps \cup {NewPayment(session, body, Len(rs) + 1)}
                     ELSE ps]

\* prisma.$transaction: fault names the write that threw ("none" when neither
\* did). A throw inside the callback rolls back every write of the transaction.
Transaction(rs, ps, session, body, fault) ==
  IF fault = "none"
  THEN [reservations |-> Append(rs, NewReservation(session, body)),
        payments |-> ps \cup {NewPayment(session, body, Len(rs) + 1)}]
  ELSE [reservations |-> rs, payments |-> ps]

\* What POST answers, from the gates' answer and the transaction's outcome.
PostResponse(gate, fault) ==
  IF gate.code # 201 THEN gate
  ELSE IF fault = "none" THEN gate
  ELSE Response(500, "Error creating reservation")

\* POST handled with no other request in between; cap bounds the table.
POST(session, body, fault, cap) ==
  LET gate == PostGate(session, body, reservations)
      tx == Transaction(reservations, payments, session, body, fault)
  IN /\ fault # "none" => gate.code = 201
     /\ gate.code = 201 => Len(tx.reservations) <= cap
     /\ reservations' = IF gate.code = 201 THEN tx.reservations ELSE reservations
     /\ payments' = IF gate.code = 201 THEN tx.payments ELSE payments
     /\ UNCHANGED <<inflight, quote>>

\* POST up to and including its findMany: a rejected request is answered at
\* once, an admitted one goes on to its transaction.
PostRead(session, body) ==
  /\ PostGate(session, body, reservations).code = 201
  /\ Cardinality(inflight) < MaxInflight
  /\ inflight' = inflight \cup {[session |-> session, body |-> body]}
  /\ UNCHANGED <<reservations, payments, quote>>

\* POST from its transaction to its response.
PostWrite(q, fault) ==
  LET tx == Transaction(reservations, payments, q.session, q.body, fault) IN
  /\ q \in inflight
  /\ Len(tx.reservations) <= MaxRes
  /\ reservations' = tx.reservations
  /\ payments' = tx.payments
  /\ inflight' = inflight \ {q}
  /\ UNCHANGED quote

---------------------------------------------------------------------------
\* PUT /api/reservations/[id]

\* updateData that takes the status of the body from every caller.
updateDataAnyStatus(existing, isAdmin, body) ==
  [existing EXCEPT
     !.status = IF body.status # NoValue THEN body.status ELSE @,
     !.startDate = IF body.startDate # NoDate THEN body.startDate ELSE @,
     !.endDate = IF body.endDate # NoDate THEN body.endDate ELSE @,
     !.startTime = IF body.startTime # NoValue THEN body.startTime ELSE @,
     !.endTime = IF body.endTime # NoValue THEN body.endTime ELSE @,
     !.pickupLocation = IF body.pickupLocation # NoValue THEN body.pickupLocation ELSE @,
     !.returnLocation = IF body.returnLocation # NoValue THEN body.returnLocation ELSE @,
     !.tariff = IF body.tariff # NoValue THEN body.tariff ELSE @,
     !.totalPrice = IF body.totalPrice \notin {NoPrice, 0} THEN body.totalPrice ELSE @]

\* updateData applied to the row: the fields the request carries replace the
\* row's; status only for staff.
updateData(existing, isAdmin, body) ==
  [existing EXCEPT
     !.status = IF isAdmin /\ body.status # NoValue THEN body.status ELSE @,
     !.startDate = IF body.startDate # NoDate THEN body.startDate ELSE @,
     !.endDate = IF body.endDate # NoDate THEN body.endDate ELSE @,
     !.startTime = IF body.startTime # NoValue THEN body.startTime ELSE @,
     !.endTime = IF body.endTime # NoValue THEN body.endTime ELSE @,
     !.pickupLocation = IF body.pickupLocation # NoValue THEN body.pickupLocation ELSE @,
     !.returnLocation = IF body.returnLocation # NoValue THEN body.returnLocation ELSE @,
     !.tariff = IF body.tariff # NoValue THEN body.tariff ELSE @,
     !.totalPrice = IF body.totalPrice \notin {NoPrice, 0} THEN body.totalPrice ELSE @]

\* The findUnique also includes the payment relation.
ExistingIncludesPaymentToo == TRUE

\* existingReservation.payment: the findUnique includes only the user relation,
\* so the property is undefined and the paymentMethod branch is never taken.
ExistingIncludesPayment == FALSE

\* The row's range after the edit, as updateData would leave it.
EditedRow(rid, body, rs) == updateData(rs[rid], FALSE, body)

\* A PUT that runs the create's overlap query on the edited range without
\* leaving out the edited row itself.
PutGateCountsSelf(session, rid, body, rs) ==
  IF session = NoSession
    THEN Response(401, "Unauthorized")
  ELSE IF rid \notin DOMAIN rs
    THEN Response(404, "Reservation not found")
  ELSE IF ~hasRequiredRole(session, Staff) /\ session # rs[rid].userId
    THEN Response(403, "Access denied")
  ELSE IF ~hasRequiredRole(session, Staff) /\ rs[rid].status \notin ActiveStatuses
    THEN Response(400, "Cannot edit reservation with status")
  ELSE IF overlappingReservations(rs, rs[rid].vehicleId,
            EditedRow(rid, body, rs).startDate, EditedRow(rid, body, rs).endDate) # {}
    THEN Response(400, "Vehicle already reserved for this time period")
  ELSE Response(200, "")

\* The gates of PUT; the body takes part in none of them.
PutGate(session, rid, body, rs) ==
  IF session = NoSession
    THEN Response(401, "Unauthorized")
  ELSE IF rid \notin DOMAIN rs
    THEN Response(404, "Reservation not found")
  ELSE IF ~hasRequiredRole(session, Staff) /\ session # rs[rid].userId
    THEN Response(403, "Access denied")
  ELSE IF ~hasRequiredRole(session, Staff) /\ rs[rid].status \notin ActiveStatuses
    THEN Response(400, "Cannot edit reservation with status")
  ELSE Response(200, "")

\* prisma.reservation.update({ where: { id }, data: updateData })
PutReservations(session, rid, body, rs) ==
  IF PutGate(session, rid, body, rs).code = 200
  THEN [rs EXCEPT ![rid] = updateData(rs[rid], hasRequiredRole(session, Staff), body)]
  ELSE rs

\* prisma.payment.updateMany({ where: { reservationId }, data: { paymentMethod } })
PutPayments(session, rid, body, rs, ps) ==
  IF /\ PutGate(session, rid, body, rs).code = 200
     /\ body.paymentMethod # NoValue
     /\ ExistingIncludesPayment
  THEN {IF p.reservationId = rid THEN [p EXCEPT !.paymentMethod = body.paymentMethod] ELSE p
          : p \in ps}
  ELSE ps

PUT(session, rid, body) ==
  /\ reservations' = PutReservations(session, rid, body, reservations)
  /\ payments' = PutPayments(session, rid, body, reservations, payments)
  /\ UNCHANGED <<inflight, quote>>

---------------------------------------------------------------------------
\* DELETE /api/reservations/[id]

\* DELETE without the check that the caller owns the reservation or is staff.
DeleteGateAnyCaller(session, rid, rs) ==
  IF session = NoSession
    THEN Response(401, "Unauthorized")
  ELSE IF rid \notin DOMAIN rs
    THEN Response(404, "Reservation not found")
  ELSE IF rs[rid].status \notin ActiveStatuses
    THEN Response(400, "Cannot cancel reservation with status")
  ELSE Response(200, "Reservation cancelled successfully, payment refunded!")

DeleteGate(session, rid, rs) ==
  IF session = NoSession
    THEN Response(401, "Unauthorized")
  ELSE IF rid \notin DOMAIN rs
    THEN Response(404, "Reservation not found")
  ELSE IF ~hasRequiredRole(session, Staff) /\ session # rs[rid].userId
    THEN Response(403, "Access denied")
  ELSE IF rs[rid].status \notin ActiveStatuses
    THEN Response(400, "Cannot cancel reservation with status")
  ELSE Response(200, "Reservation cancelled successfully, payment refunded!")

\* The Reservation table after DELETE: the handler writes no reservation row.
DeleteReservations(session, rid, rs) == rs

\* prisma.payment.updateMany({ where: { reservationId }, data: { paymentStatus: "REFUNDED" } })
DeletePayments(session, rid, rs, ps) ==
  IF DeleteGate(session, rid, rs).code = 200
  THEN {IF p.reservationId = rid THEN [p EXCEPT !.paymentStatus = "REFUNDED"] ELSE p
          : p \in ps}
  ELSE ps

DELETE(session, rid) ==
  /\ reservations' = DeleteReservations(session, rid, reservations)
  /\ payments' = DeletePayments(session, rid, reservations, payments)
  /\ UNCHANGED <<inflight, quote>>

---------------------------------------------------------------------------
\* GET /api/reservations/availability

\* The one check of the handler: both query parameters are present.
AvailabilityGate(startDate, endDate) ==
  IF startDate = NoDate \/ endDate = NoDate
    THEN Response(400, "Start and end dates are required")
  ELSE Response(200, "")

\* overlappingReservations.map(res => res.vehicleId): one entry for every row
\* the findMany returns, in the order of the rows.
bookedVehicleIds(rs, startDate, endDate) ==
  LET found == SelectSeq(rs, LAMBDA r : /\ r.status \in ActiveStatuses
                                        /\ RangeClauses(r, startDate, endDate))
  IN [k \in 1..Len(found) |-> found[k].vehicleId]

\* The handler reads and writes nothing.
GETAvailability(startDate, endDate) ==
  /\ AvailabilityGate(startDate, endDate).code \in {200, 400}
  /\ UNCHANGED vars

---------------------------------------------------------------------------
\* The requests the clients send, drawn from small sets.

Midnight(d) == HoursPerDay * d
RequestDates == {Midnight(d) : d \in 0..MaxDay}
ReservationIds == 1..MaxRes

\* A total price no billing calculation gives: a cent less than a day of v1.
TamperedPrice == Vehicle["v1"].pricePerDay - 1

\* The body of a create; the times and locations are the form's.
PostBody(vehicleId, startDate, endDate, tariff, totalPrice, paymentMethod) ==
  [vehicleId |-> vehicleId, startDate |-> startDate, endDate |-> endDate,
   startTime |-> "09:00", endTime |-> "18:00",
   pickupLocation |-> "Main Station", returnLocation |-> "Main Station",
   tariff |-> tariff, totalPrice |-> totalPrice, paymentMethod |-> paymentMethod]

\* What the reservation form sends as totalPrice: the billing engine's total.
FormPrice(vehicleId, startDate, endDate, tariff) ==
  calculatePrice(Vehicle[vehicleId].pricePerDay, startDate, endDate, tariff).totalPrice

\* The form's calculation: the inputs it passes to the billing engine and,
\* once calculated, the result, as a sequence of none or one.
Quote(pricePerDay, startDate, endDate, tariffId, result) ==
  [pricePerDay |-> pricePerDay, startDate |-> startDate, endDate |-> endDate,
   tariffId |-> tariffId, result |-> result]

\* The form before a vehicle and dates are chosen.
NoQuote == Quote(0, NoDate, NoDate, NoValue, <<>>)

\* calculateTotalPrice: the form calls the billing engine with its inputs.
Calculate ==
  /\ quote.result = <<>>
  /\ quote' = [quote EXCEPT !.result =
                 <<calculatePrice(quote.pricePerDay, quote.startDate, quote.endDate,
                                  quote.tariffId)>>]
  /\ UNCHANGED <<reservations, payments, inflight>>

\* The form's request for a vehicle, a range and a tariff.
FormBody(vehicleId, startDate, endDate, tariff) ==
  PostBody(vehicleId, startDate, endDate, tariff,
           FormPrice(vehicleId, startDate, endDate, tariff), "PAYPAL")

Request(session, body) == [session |-> session, body |-> body]

NoChange ==
  [startDate |-> NoDate, endDate |-> NoDate, startTime |-> NoValue, endTime |-> NoValue,
   pickupLocation |-> NoValue, returnLocation |-> NoValue,
   tariff |-> NoValue, totalPrice |-> NoPrice, status |-> NoValue,
   paymentMethod |-> NoValue]

EditDates == RequestDates \ {Midnight(0)}

\* Edits of one date, and of both to a range of positive length.
DateEdits ==
  {[NoChange EXCEPT !.startDate = s] : s \in EditDates}
  \cup {[NoChange EXCEPT !.endDate = e] : e \in EditDates}
  \cup {[NoChange EXCEPT !.startDate = se[1], !.endDate = se[2]] :
          se \in {x \in EditDates \X EditDates : x[1] < x[2]}}

\* The admin page's status select.
StatusEdits == {[NoChange EXCEPT !.status = st] : st \in ReservationStatus}

\* Ranges of one day, and of none.
ShortRanges == {de \in (0..MaxDay) \X (0..MaxDay) : de[2] \in {de[1], de[1] + 1}}
\* Every range with a start and an end.
AllRanges == (0..MaxDay) \X (0..MaxDay)

\* The date ranges the vehicles page asks about, and queries with a parameter
\* left out.
AvailabilityQueries == (RequestDates \cup {NoDate}) \X (RequestDates \cup {NoDate})

\* Spec: member u2 books one-day rentals of every vehicle through the form
\* (also in the past, of no length, or not logged in); nobody,
\* the owner, another member and an employee edit dates, change status and cancel.
BookingPosts ==
  {Request(session, FormBody(v, Midnight(de[1]), Midnight(de[2]), "BASIC")) :
     session \in {NoSession, "u2"}, v \in VehicleIds, de \in ShortRanges}
BookingSessions == {NoSession, "u2", "u3", "u4"}
BookingEdits == DateEdits \cup StatusEdits

\* SpecFields: a member and the admin book v1 and the free vehicle v4 with the
\* price of a day of v1, a tampered one, 0 or none; every caller edits status,
\* tariff, price, payment method and
\* dates, and cancels.
FieldPosts ==
  {Request(session, PostBody(v, Midnight(1), Midnight(e), t, p, m)) :
     session \in {"u2", "u1"}, v \in {"v1", "v4"}, e \in {2, 3},
     t \in {"BASIC", "EXCLUSIVE", "GOLD"},
     p \in {NoPrice, 0, TamperedPrice, FormPrice("v1", Midnight(1), Midnight(2), "BASIC")},
     m \in {"PAYPAL", "BANK_DRAFT"}}
FieldEdits ==
  StatusEdits \cup
  {[NoChange EXCEPT !.tariff = "DISCOUNTED"],
   [NoChange EXCEPT !.totalPrice = TamperedPrice],
   [NoChange EXCEPT !.paymentMethod = "CREDIT_CARD"],
   [NoChange EXCEPT !.endDate = Midnight(1)],
   [NoChange EXCEPT !.startTime = "10:00"],
   [NoChange EXCEPT !.returnLocation = "Airport"],
   [vehicleId |-> "v2", userId |-> "u4"] @@ [NoChange EXCEPT !.status = "COMPLETED"],
   [startDate |-> Midnight(2), endDate |-> Midnight(3),
    startTime |-> "09:00", endTime |-> "18:00",
    pickupLocation |-> "Main Station", returnLocation |-> "Main Station",
    tariff |-> "BASIC",
    totalPrice |-> FormPrice("v1", Midnight(2), Midnight(3), "BASIC"),
    status |-> "CONFIRMED", paymentMethod |-> "BANK_TRANSFER"]}

\* SpecRace: two members book v1 and v2 concurrently.
RacePosts ==
  {Request(session, FormBody(v, Midnight(de[1]), Midnight(de[2]), "BASIC")) :
     session \in {"u2", "u4"}, v \in {"v1", "v2"},
     de \in {r \in AllRanges : 1 <= r[1] /\ r[1] < r[2]}}

\* SpecGates: callers with and without the role book v1, an unavailable and
\* an unknown vehicle, with fields missing, dates in the past, and tariffs and
\* payment methods outside the lists, so that one request fails several gates;
\* the owner and an employee edit and cancel.
GatePosts ==
  {Request(session, PostBody(v, s, e, t, Vehicle["v1"].pricePerDay, m)) :
     session \in {NoSession, "u5", "u2"}, v \in {NoValue, "v1", "v3", "v9"},
     s \in {NoDate, Midnight(0), Midnight(1)}, e \in {Midnight(1), Midnight(2)},
     t \in {"BASIC", "GOLD"}, m \in {"PAYPAL", "BANK_DRAFT"}}
GateSessions == {"u2", "u3"}

---------------------------------------------------------------------------
\* SpecTimes: member u2 books v1 and v2 with pickup and return instants at
\* midnight, 10:00 and 18:00 of the days from day 1 on.
TimeInstants ==
  {Midnight(d) + h : d \in 1..(MaxDay - 1), h \in {0, 10, 18}} \cup {Midnight(MaxDay)}
TimeRanges == {se \in TimeInstants \X TimeInstants : se[1] < se[2]}
TimePosts ==
  {Request("u2", FormBody(v, se[1], se[2], "BASIC")) :
     v \in AvailableVehicles, se \in TimeRanges}

\* SpecPricing: daily rates of nothing, 35, 40 and 100; pickup at midnight,
\* at 10:00 and a day later; return at every hour up to MaxHour and after five
\* days; either date missing or invalid; the three tariffs and an unknown one.
PricingRates == {0, Vehicle["v1"].pricePerDay, 4000, 10000}
PricingStarts == {NoDate, InvalidDate, 0, 10, HoursPerDay}
PricingEnds == {NoDate, InvalidDate, HoursPerDay * 5} \cup (0..MaxHour)
PricingTariffs == TariffType \cup {"UNKNOWN_TARIFF"}

---------------------------------------------------------------------------
Init ==
  /\ reservations = <<>>
  /\ payments = {}
  /\ inflight = {}
  /\ quote = NoQuote

\* The form filled in, before its first calculation.
InitPricing ==
  /\ reservations = <<>>
  /\ payments = {}
  /\ inflight = {}
  /\ quote \in {Quote(p, s, e, t, <<>>) :
                  p \in PricingRates, s \in PricingStarts, e \in PricingEnds,
                  t \in PricingTariffs}

Next ==
  \/ \E q \in BookingPosts, fault \in Faults : POST(q.session, q.body, fault, MaxRes)
  \/ \E session \in BookingSessions, rid \in ReservationIds, body \in BookingEdits :
       PUT(session, rid, body)
  \/ \E session \in BookingSessions, rid \in ReservationIds : DELETE(session, rid)
  \/ \E se \in AvailabilityQueries : GETAvailability(se[1], se[2])

Spec == Init /\ [][Next]_vars

NextFields ==
  \/ \E q \in FieldPosts, fault \in Faults : POST(q.session, q.body, fault, MaxResFields)
  \/ \E session \in Sessions, rid \in ReservationIds, body \in FieldEdits :
       PUT(session, rid, body)
  \/ \E session \in Sessions, rid \in ReservationIds : DELETE(session, rid)

SpecFields == Init /\ [][NextFields]_vars

NextRace ==
  \/ \E q \in RacePosts : PostRead(q.session, q.body)
  \/ \E q \in inflight, fault \in Faults : PostWrite(q, fault)

SpecRace == Init /\ [][NextRace]_vars

NextGates ==
  \/ \E q \in GatePosts, fault \in Faults : POST(q.session, q.body, fault, MaxRes)
  \/ \E session \in GateSessions, rid \in ReservationIds, body \in BookingEdits :
       PUT(session, rid, body)
  \/ \E session \in GateSessions, rid \in ReservationIds : DELETE(session, rid)

SpecGates == Init /\ [][NextGates]_vars

NextTimes ==
  \/ \E q \in TimePosts, fault \in Faults : POST(q.session, q.body, fault, MaxRes)
  \/ \E session \in GateSessions, rid \in ReservationIds : DELETE(session, rid)

SpecTimes == Init /\ [][NextTimes]_vars

NextPricing == Calculate

SpecPricing == InitPricing /\ [][NextPricing]_vars

---------------------------------------------------------------------------
\* Vocabulary of the properties.

\* The closed-interval overlap of two rows' date ranges.
ClosedOverlap(a, b) == a.startDate <= b.endDate /\ a.endDate >= b.startDate

IsActive(r) == r.status \in ActiveStatuses

PaymentsOf(ps, rid) == {p \in ps : p.reservationId = rid}

\* The caller is the owning user of the row, or staff.
OwnerOrStaff(session, r) ==
  session # NoSession /\ (session = r.userId \/ UserRole[session] \in Staff)

\* Another active row of the same vehicle overlaps the range of row r.
OverlapsOther(rs, rid, r) ==
  \E j \in DOMAIN rs :
    j # rid /\ rs[j].vehicleId = r.vehicleId /\ IsActive(rs[j]) /\ ClosedOverlap(r, rs[j])

\* The row the last step inserted, when it inserted one.
Created == Len(reservations') = Len(reservations) + 1
NewId == Len(reservations')

---------------------------------------------------------------------------
\* C1: in every reachable state no two distinct PENDING or CONFIRMED
\* reservations of one vehicle have overlapping closed date ranges.
NoDoubleBooking ==
  \A i, j \in DOMAIN reservations :
    (i # j /\ reservations[i].vehicleId = reservations[j].vehicleId
       /\ IsActive(reservations[i]) /\ IsActive(reservations[j]))
    => ~ClosedOverlap(reservations[i], reservations[j])

\* C2: of two concurrent creates for one vehicle and overlapping ranges only
\* one persists: no day of a vehicle is covered by two persisted active rows.
RaceOneWinner ==
  \A v \in VehicleIds, d \in RequestDates :
    Cardinality({i \in DOMAIN reservations :
                   /\ reservations[i].vehicleId = v
                   /\ IsActive(reservations[i])
                   /\ reservations[i].startDate <= d
                   /\ d <= reservations[i].endDate}) <= 1

\* C3: the reservation and its payment are written as one unit: every
\* reservation row has exactly one payment row, and every payment row belongs
\* to a reservation row, whichever write of a create failed.
ReservationHasItsPayment ==
  /\ \A i \in DOMAIN reservations : Cardinality(PaymentsOf(payments, i)) = 1
  /\ \A p \in payments : p.reservationId \in DOMAIN reservations

\* C3 witness: the table is full and every row has its payment, after creates
\* of which any may have failed in either write.
WitnessReservationHasItsPayment ==
  /\ Len(reservations) = MaxRes
  /\ \A i \in DOMAIN reservations : Cardinality(PaymentsOf(payments, i)) = 1

\* C4: a cancel by the owner or by staff of a PENDING or CONFIRMED
\* reservation leaves its status CANCELLED and its payment REFUNDED.
CancelSetsCancelledAndRefunded ==
  \A session \in Sessions, rid \in DOMAIN reservations :
    (OwnerOrStaff(session, reservations[rid]) /\ IsActive(reservations[rid]))
    => /\ DeleteGate(session, rid, reservations).code = 200
       /\ DeleteReservations(session, rid, reservations)[rid].status = "CANCELLED"
       /\ \A p \in PaymentsOf(DeletePayments(session, rid, reservations, payments), rid) :
            p.paymentStatus = "REFUNDED"

\* C5: after a successful cancel every later cancel of the same reservation is
\* rejected with status 400 and changes nothing; a cancel of a CANCELLED or
\* COMPLETED reservation is rejected.
RecancelRejected ==
  \A session \in Sessions, rid \in DOMAIN reservations :
    /\ DeleteGate(session, rid, reservations).code = 200
       => LET rs1 == DeleteReservations(session, rid, reservations)
              ps1 == DeletePayments(session, rid, reservations, payments)
          IN \A again \in Sessions :
               /\ DeleteGate(again, rid, rs1).code # 200
               /\ DeleteReservations(again, rid, rs1) = rs1
               /\ DeletePayments(again, rid, rs1, ps1) = ps1
    /\ ~IsActive(reservations[rid])
       => DeleteGate(session, rid, reservations).code \notin {200}

\* C6: an edit by the owner or staff that changes an active reservation's
\* dates to a range overlapping another active reservation of the vehicle is
\* rejected with status 400 and leaves the table as it was.
EditOverlapRejected ==
  \A session \in Sessions, rid \in DOMAIN reservations, body \in DateEdits :
    LET r == reservations[rid]
        edited == EditedRow(rid, body, reservations)
    IN (/\ OwnerOrStaff(session, r) /\ IsActive(r)
        /\ <<edited.startDate, edited.endDate>> # <<r.startDate, r.endDate>>
        /\ OverlapsOther(reservations, rid, edited))
       => /\ PutGate(session, rid, body, reservations).code = 400
          /\ PutReservations(session, rid, body, reservations) = reservations

\* The edit that resubmits the row's own dates.
SameDates(r) == [NoChange EXCEPT !.startDate = r.startDate, !.endDate = r.endDate]

\* C7: an edit by the owner or staff that resubmits an active reservation's
\* own date range, which overlaps no other active reservation of the vehicle,
\* is answered 200 and leaves the row with that range.
EditOwnRangeSucceeds ==
  \A session \in Sessions, rid \in DOMAIN reservations :
    LET r == reservations[rid] IN
    (OwnerOrStaff(session, r) /\ IsActive(r) /\ ~OverlapsOther(reservations, rid, r))
    => /\ PutGate(session, rid, SameDates(r), reservations).code = 200
       /\ PutReservations(session, rid, SameDates(r), reservations) = reservations

\* C7 witness: an active reservation beside another active reservation of the
\* same vehicle that it does not overlap, whose owner resubmits its range.
WitnessEditOwnRange ==
  \E rid, j \in DOMAIN reservations :
    LET r == reservations[rid] IN
    /\ j # rid /\ reservations[j].vehicleId = r.vehicleId /\ IsActive(reservations[j])
    /\ IsActive(r) /\ r.startDate <= r.endDate
    /\ ~OverlapsOther(reservations, rid, r)
    /\ PutGate(r.userId, rid, SameDates(r), reservations).code = 200

\* C8: the totalPrice a successful create stores is the billing engine's total
\* for the vehicle's daily rate, the dates and the tariff.
CreateStoresEnginePrice ==
  [][Created =>
       LET r == reservations'[NewId] IN
       r.totalPrice = calculatePrice(Vehicle[r.vehicleId].pricePerDay,
                                     r.startDate, r.endDate, r.tariff).totalPrice]_vars

\* C9: right after a successful create the new reservation is PENDING and has
\* one payment, which is PENDING, references it and has the reservation's
\* totalPrice as its amount.
CreatedPendingWithPayment ==
  [][Created =>
       LET r == reservations'[NewId]
           ps == PaymentsOf(payments', NewId)
       IN /\ r.status = "PENDING"
          /\ Cardinality(ps) = 1
          /\ \A p \in ps : p.paymentStatus = "PENDING" /\ p.amount = r.totalPrice]_vars

\* C9 witness: a PENDING reservation with its PENDING payment of the same
\* amount, for the form's price and for a tampered one.
WitnessCreatedPending ==
  \E i \in DOMAIN reservations :
    /\ reservations[i].status = "PENDING"
    /\ reservations[i].totalPrice # TamperedPrice
    /\ \E p \in payments :
         /\ p.reservationId = i /\ p.paymentStatus = "PENDING"
         /\ p.amount = reservations[i].totalPrice

\* C10: no step changes the status of a CANCELLED or COMPLETED reservation or
\* sets a status to PENDING: a status changes only from PENDING or CONFIRMED,
\* and only to CONFIRMED, CANCELLED or COMPLETED.
StatusMachine ==
  [][\A i \in DOMAIN reservations :
       reservations'[i].status # reservations[i].status
       => /\ reservations[i].status \in ActiveStatuses
          /\ reservations'[i].status \in {"CONFIRMED", "CANCELLED", "COMPLETED"}]_vars

\* C11: an edit by the owner or by staff of a CANCELLED or COMPLETED
\* reservation is rejected with status 400 and leaves the table as it was.
EditInactiveRejected ==
  \A session \in Sessions, rid \in DOMAIN reservations, body \in BookingEdits :
    (OwnerOrStaff(session, reservations[rid]) /\ ~IsActive(reservations[rid]))
    => /\ PutGate(session, rid, body, reservations).code = 400
       /\ PutReservations(session, rid, body, reservations) = reservations

\* The five gates of a create, each on its own.
FailsRole(session) ==
  session = NoSession \/ UserRole[session] \notin {"MEMBER", "EMPLOYEE", "ADMIN"}
FailsFields(body) ==
  \/ body.vehicleId = NoValue \/ body.startDate = NoDate \/ body.endDate = NoDate
  \/ body.startTime = NoValue \/ body.endTime = NoValue
  \/ body.pickupLocation = NoValue \/ body.returnLocation = NoValue
  \/ body.tariff = NoValue \/ body.totalPrice \in {NoPrice, 0} \/ body.paymentMethod = NoValue
  \/ body.startDate < Now \/ body.endDate <= body.startDate
FailsVehicle(body) ==
  body.vehicleId \notin VehicleIds \/ ~Vehicle[body.vehicleId].available
FailsOverlap(body, rs) ==
  \E i \in DOMAIN rs :
    /\ rs[i].vehicleId = body.vehicleId /\ IsActive(rs[i])
    /\ RangeClauses(rs[i], body.startDate, body.endDate)
FailsLists(body) ==
  body.tariff \notin validTariffs \/ body.paymentMethod \notin validPaymentMethods

\* The gates a request fails, by their place in the order.
FailedGates(session, body, rs) ==
  (IF FailsRole(session) THEN {1} ELSE {})
  \cup (IF FailsFields(body) THEN {2} ELSE {})
  \cup (IF FailsVehicle(body) THEN {3} ELSE {})
  \cup (IF FailsOverlap(body, rs) THEN {4} ELSE {})
  \cup (IF FailsLists(body) THEN {5} ELSE {})

\* The reasons each gate answers with.
GateReasons ==
  <<{"Unauthorized"},
    {"Missing required fields", "Start date cannot be in the past",
     "End date must be after start date"},
    {"Vehicle not found", "Vehicle not available"},
    {"Vehicle already reserved for this time period"},
    {"Invalid tariff", "Invalid payment method"}>>

Earliest(gates) == CHOOSE g \in gates : \A h \in gates : g <= h

ProbeDates == {Midnight(d) : d \in 1..(MaxDay + 1)}
ProbeRanges == {se \in ProbeDates \X ProbeDates : Now <= se[1] /\ se[1] < se[2]}

ConflictReason == "Vehicle already reserved for this time period"

\* A create for a vehicle and a range with every field present and valid.
ProbeBody(v, s, e) == PostBody(v, s, e, "BASIC", Vehicle["v1"].pricePerDay, "PAYPAL")

\* The active rows of vehicle v.
ActiveRowsOf(rs, v) == {i \in DOMAIN rs : rs[i].vehicleId = v /\ IsActive(rs[i])}

\* C13: while the active rows of the vehicle have start <= end, a create that
\* passed the earlier gates is rejected as a conflict exactly when an active
\* row of the same vehicle has row.start <= new.end and row.end >= new.start,
\* and is accepted otherwise; rows of other vehicles play no part.
OverlapGateIsClosedInterval ==
  \A v \in AvailableVehicles, se \in ProbeRanges :
    LET gate == PostGate("u2", ProbeBody(v, se[1], se[2]), reservations)
        rows == ActiveRowsOf(reservations, v)
        closed == \E i \in rows :
                    reservations[i].startDate <= se[2] /\ reservations[i].endDate >= se[1]
    IN (\A i \in rows : reservations[i].startDate <= reservations[i].endDate)
       => /\ closed => gate.code = 400 /\ gate.error = ConflictReason
          /\ ~closed => gate.code = 201

\* C13 witness: v1 is reserved from day 1 to day 2 and v2 on day 3; a create
\* for v1 from day 2 to day 3 is a conflict and one from day 3 to day 4 is
\* accepted.
WitnessOverlapGate ==
  /\ \E i \in ActiveRowsOf(reservations, "v1") :
       reservations[i].startDate = Midnight(1) /\ reservations[i].endDate = Midnight(2)
  /\ \E j \in ActiveRowsOf(reservations, "v2") : reservations[j].endDate = Midnight(3)
  /\ PostGate("u2", FormBody("v1", Midnight(2), Midnight(3), "BASIC"), reservations).error
       = ConflictReason
  /\ PostGate("u2", FormBody("v1", Midnight(3), Midnight(4), "BASIC"), reservations).code = 201

\* The vehicle ids a list names.
Listed(ids) == {ids[k] : k \in DOMAIN ids}

\* C14: while the active rows have start <= end, the availability query for a
\* range with start <= end lists a vehicle exactly when one of its PENDING or
\* CONFIRMED reservations overlaps the range as closed intervals, which is
\* exactly when a create of that vehicle over the range fails the overlap gate,
\* and lists no vehicle twice.
ListsBookedVehiclesOnce ==
  \A s, e \in RequestDates :
    LET ids == bookedVehicleIds(reservations, s, e) IN
    (/\ s <= e
     /\ \A i \in DOMAIN reservations :
          IsActive(reservations[i]) => reservations[i].startDate <= reservations[i].endDate)
    => /\ AvailabilityGate(s, e).code = 200
       /\ \A v \in VehicleIds :
            /\ v \in Listed(ids)
                 <=> \E i \in ActiveRowsOf(reservations, v) :
                       reservations[i].startDate <= e /\ reservations[i].endDate >= s
            /\ v \in Listed(ids)
                 <=> FailsOverlap([vehicleId |-> v, startDate |-> s, endDate |-> e],
                                  reservations)
       /\ \A k, l \in DOMAIN ids : ids[k] = ids[l] => k = l

\* C15: the availability query is answered 400 when its start is not before
\* its end, and 200 with an empty list when its start is before its end and no
\* active reservation overlaps the range.
AvailabilityValidatesRange ==
  \A s, e \in RequestDates :
    /\ s >= e => AvailabilityGate(s, e).code = 400
    /\ (s < e /\ \A v \in VehicleIds :
                   \A i \in ActiveRowsOf(reservations, v) :
                     ~(reservations[i].startDate <= e /\ reservations[i].endDate >= s))
       => /\ AvailabilityGate(s, e).code = 200
          /\ bookedVehicleIds(reservations, s, e) = <<>>

---------------------------------------------------------------------------
\* Vocabulary of the pricing properties.

Calculated == quote.result # <<>>
Result == quote.result[1]
\* Both dates of the form are instants.
HasInstants == quote.startDate >= 0 /\ quote.endDate >= 0
Duration == quote.endDate - quote.startDate

\* The number of days of a duration: one up to 24 hours, and otherwise the n
\* with 24 (n - 1) < duration <= 24 n.
DaysOf(duration) ==
  IF duration <= HoursPerDay THEN 1
  ELSE CHOOSE n \in 2..duration :
         HoursPerDay * (n - 1) < duration /\ duration <= HoursPerDay * n

\* C16: the base price is the daily rate times the day count, which is one for
\* every duration up to 24 hours, zero and negative ones included, and rounds
\* any excess over whole days up to the next day.
DayCountRoundsUp ==
  (Calculated /\ HasInstants)
  => /\ Result.basePrice = quote.pricePerDay * DaysOf(Duration)
     /\ Result.breakdown[1] = Result.basePrice

\* C16 witness: a rental of 25 hours at a positive rate is billed two days.
WitnessDayCountRoundsUp ==
  /\ Calculated /\ quote.pricePerDay > 0
  /\ Duration = HoursPerDay + 1
  /\ Result.basePrice = 2 * quote.pricePerDay

\* The rental from 10:00 to 09:00 of the next day.
TenToNine == quote.startDate = 10 /\ quote.endDate = HoursPerDay + 9

\* C17 as stated: the rental from 10:00 to 09:00 of the next day is billed as
\* two days.
TwentyThreeHoursBilledTwoDays ==
  (Calculated /\ TenToNine) => Result.basePrice = 2 * quote.pricePerDay

\* C17 as amended: the rental from 10:00 to 09:00 of the next day is billed as
\* one day.
TwentyThreeHoursBilledOneDay ==
  (Calculated /\ TenToNine) => Result.basePrice = quote.pricePerDay

\* C17 witness: that rental calculated at a positive rate.
WitnessTwentyThreeHours ==
  Calculated /\ TenToNine /\ quote.pricePerDay > 0 /\ Result.totalPrice > 0

ZeroResultWithoutDates ==
  (Calculated /\ ~HasInstants)
  => Result = [basePrice |-> 0, tariffAdjustment |-> 0, totalPrice |-> 0,
               breakdown |-> <<>>]

\* C19 witness: a positive rate and a surcharge tariff, the pickup date invalid
\* and the return date an instant, calculated to nothing.
WitnessZeroResult ==
  /\ Calculated /\ quote.startDate = InvalidDate /\ quote.endDate >= 0
  /\ quote.pricePerDay > 0 /\ quote.tariffId = "EXCLUSIVE"
  /\ Result.totalPrice = 0

\* C20: a tariff id that is not in the tariff table gives the result BASIC
\* gives for the same rate and dates: no adjustment, the total equal to the
\* base price and a breakdown of one line.
UnknownTariffIsBasic ==
  (Calculated /\ quote.tariffId \notin TariffType)
  => /\ Result = calculatePrice(quote.pricePerDay, quote.startDate, quote.endDate, "BASIC")
     /\ HasInstants => /\ Result.tariffAdjustment = 0
                       /\ Result.totalPrice = Result.basePrice
                       /\ Len(Result.breakdown) = 1

\* C20 witness: an unknown tariff id at a positive rate for several days.
WitnessUnknownTariff ==
  /\ Calculated /\ quote.tariffId \notin TariffType
  /\ HasInstants /\ Duration > HoursPerDay /\ quote.pricePerDay > 0
  /\ Result.totalPrice = Result.basePrice

---------------------------------------------------------------------------
\* C21: a reservation that is CANCELLED or COMPLETED, and a reservation right
\* after its successful cancel, is not among the rows that make a create for
\* its vehicle and an overlapping range a conflict.
CancelledNeverBlocks ==
  \A rid \in DOMAIN reservations, se \in ProbeRanges :
    LET v == reservations[rid].vehicleId IN
    /\ ~IsActive(reservations[rid])
         => rid \notin overlappingReservations(reservations, v, se[1], se[2])
    /\ \A session \in Sessions :
         DeleteGate(session, rid, reservations).code = 200
         => rid \notin overlappingReservations(
                         DeleteReservations(session, rid, reservations), v, se[1], se[2])

\* C22: an edit leaves every other row, and the edited row's vehicle and
\* owning user, as they were; it leaves the status as it was for a caller who
\* is not staff; and each of the dates, times, locations, tariff and total
\* price that the request does not carry keeps its value; no step changes a
\* row's vehicle or owning user or removes a row.
EditFrame ==
  /\ [](\A session \in Sessions, rid \in DOMAIN reservations, body \in FieldEdits :
          LET old == reservations[rid]
              rs1 == PutReservations(session, rid, body, reservations)
              new == rs1[rid]
          IN /\ DOMAIN rs1 = DOMAIN reservations
             /\ \A j \in DOMAIN reservations : j # rid => rs1[j] = reservations[j]
             /\ new.vehicleId = old.vehicleId /\ new.userId = old.userId
             /\ ~hasRequiredRole(session, Staff) => new.status = old.status
             /\ new.status \in {old.status, body.status}
             /\ body.startDate = NoDate => new.startDate = old.startDate
             /\ body.endDate = NoDate => new.endDate = old.endDate
             /\ body.startTime = NoValue => new.startTime = old.startTime
             /\ body.endTime = NoValue => new.endTime = old.endTime
             /\ body.pickupLocation = NoValue => new.pickupLocation = old.pickupLocation
             /\ body.returnLocation = NoValue => new.returnLocation = old.returnLocation
             /\ body.tariff = NoValue => new.tariff = old.tariff
             /\ body.totalPrice = NoPrice => new.totalPrice = old.totalPrice)
  /\ [][\A i \in DOMAIN reservations :
          /\ i \in DOMAIN reservations'
          /\ reservations'[i].vehicleId = reservations[i].vehicleId
          /\ reservations'[i].userId = reservations[i].userId]_vars

\* C22 witness: the owner, a member, sends an edit that carries a status, a
\* vehicle and a user; it is answered 200 and the row keeps all three.
WitnessEditFrame ==
  \E rid \in DOMAIN reservations, body \in FieldEdits :
    LET old == reservations[rid]
        new == PutReservations(old.userId, rid, body, reservations)[rid]
    IN /\ ~hasRequiredRole(old.userId, Staff)
       /\ "vehicleId" \in DOMAIN body /\ body.vehicleId # old.vehicleId
       /\ body.status # old.status
       /\ PutGate(old.userId, rid, body, reservations).code = 200
       /\ new = old

\* C23: an edit or a cancel by a caller who is neither the owning user of the
\* reservation nor staff is answered 401 or 403 and leaves both tables as they
\* were.
StrangerRejected ==
  \A session \in Sessions, rid \in DOMAIN reservations :
    ~OwnerOrStaff(session, reservations[rid])
    => /\ \A body \in BookingEdits :
            /\ PutGate(session, rid, body, reservations).code \in {401, 403}
            /\ PutReservations(session, rid, body, reservations) = reservations
            /\ PutPayments(session, rid, body, reservations, payments) = payments
       /\ DeleteGate(session, rid, reservations).code \in {401, 403}
       /\ DeleteReservations(session, rid, reservations) = reservations
       /\ DeletePayments(session, rid, reservations, payments) = payments

\* C23 witness: member u4 edits and cancels an active reservation of member u2
\* whose payment is PENDING, and is answered 403 both times.
WitnessStrangerRejected ==
  \E rid \in DOMAIN reservations :
    /\ reservations[rid].userId = "u2" /\ IsActive(reservations[rid])
    /\ \E p \in PaymentsOf(payments, rid) : p.paymentStatus = "PENDING"
    /\ PutGate("u4", rid, [NoChange EXCEPT !.startDate = Midnight(2)], reservations).code = 403
    /\ DeleteGate("u4", rid, reservations).code = 403

\* A range as the row the range filter reads.
AsRow(s, e) == [startDate |-> s, endDate |-> e]

\* C24: the overlap decision is symmetric: for every stored reservation and
\* every queried range, the range filter matches the reservation against the
\* range exactly when it matches a reservation with the range's dates against
\* a query with the reservation's dates.
OverlapSymmetric ==
  \A i \in DOMAIN reservations, s, e \in RequestDates :
    RangeClauses(reservations[i], s, e)
      <=> RangeClauses(AsRow(s, e), reservations[i].startDate, reservations[i].endDate)

\* C25: in every reachable state a reservation's payment is REFUNDED exactly
\* when the reservation is CANCELLED.
RefundedIffCancelled ==
  \A i \in DOMAIN reservations :
    \A p \in PaymentsOf(payments, i) :
      p.paymentStatus = "REFUNDED" <=> reservations[i].status = "CANCELLED"

\* C26: every persisted reservation has its start date strictly before its end
\* date.
StartBeforeEnd ==
  \A i \in DOMAIN reservations : reservations[i].startDate < reservations[i].endDate

\* The calendar day of an instant.
DayOf(t) == t \div HoursPerDay

\* The answer of the overlap gate to a create by u2.
OverlapDecision(v, s, e) ==
  PostGate("u2", ProbeBody(v, s, e), reservations).error = ConflictReason

\* C27: the overlap decision depends only on the calendar days: a create whose
\* days overlap the days of an active reservation of the vehicle is a conflict
\* whatever the times of day, and two creates on the same days get the same
\* decision.
OverlapByCalendarDay ==
  \A v \in AvailableVehicles, se \in TimeRanges :
    /\ \A i \in ActiveRowsOf(reservations, v) :
         (/\ DayOf(reservations[i].startDate) <= DayOf(se[2])
          /\ DayOf(reservations[i].endDate) >= DayOf(se[1]))
         => OverlapDecision(v, se[1], se[2])
    /\ \A other \in TimeRanges :
         (DayOf(other[1]) = DayOf(se[1]) /\ DayOf(other[2]) = DayOf(se[2]))
         => (OverlapDecision(v, other[1], other[2]) <=> OverlapDecision(v, se[1], se[2]))

RECURSIVE SumOf(_)
\* The sum of the amounts of a breakdown.
SumOf(amounts) ==
  IF amounts = <<>> THEN 0 ELSE Head(amounts) + SumOf(Tail(amounts))

\* C28: with both dates instants, the total is the base price minus the
\* adjustment, the breakdown amounts sum to the total, the first line carries
\* the base price, and the breakdown has two lines for the DISCOUNTED and
\* EXCLUSIVE tariffs and one line for every other tariff id.
TotalIsBaseMinusAdjustment ==
  (Calculated /\ HasInstants)
  => /\ Result.totalPrice = Result.basePrice - Result.tariffAdjustment
     /\ SumOf(Result.breakdown) = Result.totalPrice
     /\ Result.breakdown[1] = Result.basePrice
     /\ Len(Result.breakdown) = IF quote.tariffId \in {"DISCOUNTED", "EXCLUSIVE"} THEN 2 ELSE 1

\* C28 witness: a surcharge on a positive base price, listed as a second line.
WitnessTotalIsBaseMinusAdjustment ==
  /\ Calculated /\ HasInstants /\ quote.tariffId = "EXCLUSIVE" /\ quote.pricePerDay > 0
  /\ Duration > HoursPerDay
  /\ Len(Result.breakdown) = 2 /\ Result.breakdown[2] > 0
  /\ Result.totalPrice = Result.basePrice + Result.breakdown[2]

\* C29: a create by a MEMBER, EMPLOYEE or ADMIN with every field present, a
\* total price of 0 included, a start not in the past, an end after the start,
\* an available vehicle, no active reservation of the vehicle overlapping the
\* range, and a tariff and payment method of the lists is answered 201 when no
\* write fails.
AcceptsValidCreate ==
  \A q \in FieldPosts :
    LET body == q.body IN
    (/\ q.session \in UserIds /\ UserRole[q.session] \in {"MEMBER", "EMPLOYEE", "ADMIN"}
     /\ body.vehicleId # NoValue /\ body.startDate # NoDate /\ body.endDate # NoDate
     /\ body.startTime # NoValue /\ body.endTime # NoValue
     /\ body.pickupLocation # NoValue /\ body.returnLocation # NoValue
     /\ body.tariff # NoValue /\ body.paymentMethod # NoValue
     /\ body.totalPrice # NoPrice /\ body.totalPrice >= 0
     /\ body.startDate >= Now /\ body.endDate > body.startDate
     /\ body.vehicleId \in AvailableVehicles
     /\ \A i \in ActiveRowsOf(reservations, body.vehicleId) :
          ~(reservations[i].startDate <= body.endDate
              /\ reservations[i].endDate >= body.startDate)
     /\ body.tariff \in TariffType
     /\ body.paymentMethod \in {"CREDIT_CARD", "PAYPAL", "BANK_TRANSFER"})
    => PostResponse(PostGate(q.session, body, reservations), "none").code = 201

\* C30: no edit changes the Payment table, whatever total price or payment
\* method it carries: a step that changes a reservation row leaves every
\* payment as it was, and no step changes a payment's amount or method.
EditKeepsPayment ==
  /\ [](\A session \in Sessions, rid \in DOMAIN reservations, body \in FieldEdits :
          PutPayments(session, rid, body, reservations, payments) = payments)
  /\ [][/\ (Len(reservations') = Len(reservations) /\ reservations' # reservations)
             => payments' = payments
        /\ \A p \in payments :
             \E p2 \in payments' :
               /\ p2.reservationId = p.reservationId
               /\ p2.amount = p.amount /\ p2.paymentMethod = p.paymentMethod]_vars

\* C30 witness: after edits of the total price and of the payment method the
\* reservation's total price is the edited one, and its payment still has the
\* amount and the method of the create.
WitnessEditKeepsPayment ==
  \E i \in DOMAIN reservations :
    /\ reservations[i].totalPrice = TamperedPrice
    /\ PutGate(reservations[i].userId, i, [NoChange EXCEPT !.paymentMethod = "CREDIT_CARD"],
               reservations).code = 200
    /\ \E p \in PaymentsOf(payments, i) :
         /\ p.amount = FormPrice("v1", Midnight(1), Midnight(2), "BASIC")
         /\ p.paymentMethod = "PAYPAL"

====
